---------------------------- MODULE Spec2Model ----------------------------
(***************************************************************************)
(* Model of the MAX7219 chain driver of src/src/lib.rs.                    *)
(*                                                                         *)
(* The driver is synchronous and single threaded.  Every public operation  *)
(* reduces to a sequence of write_raw calls, each of which bit-bangs the   *)
(* frame buffer over three output pins.  A public operation is modelled    *)
(* as: an entry action (the call, with its arguments, up to the return of  *)
(* its first write_raw), one WriteRaw step for each later write_raw call   *)
(* the operation makes (the whole write_raw, with the pin operation that   *)
(* fails, if any, chosen by the environment), and a Return step.  While a  *)
(* call is running nothing else is enabled.                                *)
(***************************************************************************)
EXTENDS Integers, Sequences, FiniteSets

(***************************************************************************)
(* Program constants                                                       *)
(***************************************************************************)
MAX_DISPLAYS == 8
MAX_DIGITS == 8

Noop == 0
Digit0 == 1
Digit7 == 8
DecodeModeReg == 9
Intensity == 10
ScanLimit == 11
Power == 12
DisplayTest == 15

NoDecode == 0
CodeBDigit0 == 1
CodeBDigits3_0 == 15
CodeBDigits7_0 == 255

(***************************************************************************)
(* Bounds of the model                                                     *)
(***************************************************************************)
\* largest device count handed to the constructor (above MAX_DISPLAYS)
MaxDevicesArg == 9
\* largest device address handed to an operation
MaxAddr == 4

\* a pin failure is explored at the first and at the last MaxFailAt pin
\* operations of every write_raw
MaxFailAt == 2

Addrs == 0..MaxAddr
\* data bytes handed to the operations that take a caller-chosen byte
DataBytes == {0, 178}
\* registers handed to write_data, decode modes handed to set_decode_mode
Commands == {Noop, Digit0}
DecodeModes == {NoDecode, CodeBDigits7_0}
\* eight-byte inputs of write_bcd: " 1234567" and "-EhLp 09"
BcdInputs == { <<32, 49, 50, 51, 52, 53, 54, 55>>,
               <<45, 69, 104, 76, 112, 32, 0, 9>> }

\* the operations after whose error the caller is followed further
Resumed == {"power_on"}

VARIABLES
    status,    \* "new" | "constructing" | "ready" | "dead" | "panicked" | "shift"
    requested, \* the device count handed to the constructor
    devices,   \* self.devices
    buffer,    \* self.buffer
    cs, clk, data,  \* the level each output pin was last driven to
    call,      \* the public call that runs or ran last: [op, addr, arg]
    pending,   \* the write_raw calls the running operation still has to make
    result,    \* "None" | "Running" | "Ok" | "Err" | "Panic"
    log,       \* the write_raw calls begun by this call, in order
    events     \* the pin operations attempted by the write_raw begun last

vars == <<status, requested, devices, buffer, cs, clk, data, call, pending,
          result, log, events>>

(***************************************************************************)
(* Pin operations                                                          *)
(***************************************************************************)
CsLow == "cs.set_low"
CsHigh == "cs.set_high"
DataLow == "data.set_low"
DataHigh == "data.set_high"
ClkLow == "clk.set_low"
ClkHigh == "clk.set_high"

PinOf(op) == IF op \in {CsLow, CsHigh} THEN "cs"
             ELSE IF op \in {DataLow, DataHigh} THEN "data" ELSE "clk"
LevelOf(op) == IF op \in {CsHigh, DataHigh, ClkHigh} THEN 1 ELSE 0

\* the positions among ops[1..k] of the operations on pin, in order
OpsOn(ops, pin, k) ==
    SelectSeq([i \in 1..k |-> i], LAMBDA i : PinOf(ops[i]) = pin)

\* the level of pin after the pin operations ops[1..k], all of which
\* succeeded: the level the last of them on that pin drove it to, and the
\* level it had before when none did
LevelAfter(ops, pin, k, before) ==
    LET on == OpsOn(ops, pin, k)
    IN  IF on = <<>> THEN before ELSE LevelOf(ops[on[Len(on)]])

\* the three lines after ops[1..k], st being the lines before
LinesAfter(ops, k, st) ==
    [cs |-> LevelAfter(ops, "cs", k, st.cs),
     clk |-> LevelAfter(ops, "clk", k, st.clk),
     data |-> LevelAfter(ops, "data", k, st.data)]

(***************************************************************************)
(* bcd_byte                                                                *)
(***************************************************************************)
\* bcd_byte giving the upper case letters the codes of the lower case ones
bcd_byte_no_dot(b) ==
    CASE b = 32  -> 15
      [] b = 45  -> 10
      [] b \in {101, 69}  -> 11
      [] b \in {104, 72}  -> 12
      [] b \in {108, 76}  -> 13
      [] b \in {112, 80}  -> 14
      [] OTHER   -> b

bcd_byte(b) ==
    CASE b = 32  -> 15
      [] b = 45  -> 10
      [] b = 101 -> 11
      [] b = 69  -> 139
      [] b = 104 -> 12
      [] b = 72  -> 140
      [] b = 108 -> 13
      [] b = 76  -> 141
      [] b = 112 -> 14
      [] b = 80  -> 142
      [] OTHER   -> b

(***************************************************************************)
(* shift_out, empty_buffer, write_raw                                      *)
(***************************************************************************)
\* value & (1 << n) > 0
BitSet(value, n) == (value \div (2 ^ n)) % 2 = 1

\* shift_out sending the least significant bit first
shift_out_lsb_first(value) ==
    [k \in 1..24 |->
        LET i == (k - 1) \div 3
            s == (k - 1) % 3
        IN  IF s = 0 THEN (IF BitSet(value, i) THEN DataHigh ELSE DataLow)
            ELSE IF s = 1 THEN ClkHigh
            ELSE ClkLow]

\* shift_out pulsing the clock low then high
shift_out_clock_left_high(value) ==
    [k \in 1..24 |->
        LET i == (k - 1) \div 3
            s == (k - 1) % 3
        IN  IF s = 0 THEN (IF BitSet(value, 7 - i) THEN DataHigh ELSE DataLow)
            ELSE IF s = 1 THEN ClkLow
            ELSE ClkHigh]

\* the pin operations of shift_out(value) when no pin fails
shift_out(value) ==
    [k \in 1..24 |->
        LET i == (k - 1) \div 3
            s == (k - 1) % 3
        IN  IF s = 0 THEN (IF BitSet(value, 7 - i) THEN DataHigh ELSE DataLow)
            ELSE IF s = 1 THEN ClkHigh
            ELSE ClkLow]

\* buffer: [u8; MAX_DISPLAYS]
BufferLen == MAX_DISPLAYS

empty_buffer == [i \in 0..(BufferLen - 1) |-> 0]

Min(a, b) == IF a < b THEN a ELSE b

\* for i in from..to-1 { shift_out(buf[i]) }
RECURSIVE ShiftBytes(_, _, _)
ShiftBytes(buf, from, to) ==
    IF from >= to THEN <<>>
    ELSE shift_out(buf[from]) \o ShiftBytes(buf, from + 1, to)

\* fill_buffer with the offset not doubled
fill_buffer_at_addr(buf, addr, header, dat) ==
    IF addr + 1 >= BufferLen
    THEN [buffer |-> empty_buffer, end |-> "panic"]
    ELSE [buffer |-> [empty_buffer EXCEPT ![addr] = header, ![addr + 1] = dat],
          end |-> "ok"]

\* fill_buffer storing the frame in the slot of every device
fill_buffer_broadcast(buf, addr, header, dat) ==
    IF addr * 2 + 1 >= BufferLen
    THEN [buffer |-> empty_buffer, end |-> "panic"]
    ELSE [buffer |-> [i \in 0..(BufferLen - 1) |->
                         IF i % 2 = 0 THEN header ELSE dat],
          end |-> "ok"]

\* fill_buffer without the call of empty_buffer
fill_buffer_not_emptied(buf, addr, header, dat) ==
    IF addr * 2 + 1 >= BufferLen
    THEN [buffer |-> buf, end |-> "panic"]
    ELSE [buffer |-> [buf EXCEPT ![addr * 2] = header, ![addr * 2 + 1] = dat],
          end |-> "ok"]

\* The first half of write_raw on the buffer buf: self.empty_buffer(), then
\* the two stores at offset and offset + 1, each of which panics when its
\* index is outside the buffer
fill_buffer(buf, addr, header, dat) ==
    LET offset == addr * 2
        emptied == empty_buffer
    IN  IF offset >= BufferLen
        THEN [buffer |-> emptied, end |-> "panic"]
        ELSE IF offset + 1 >= BufferLen
        THEN [buffer |-> [emptied EXCEPT ![offset] = header], end |-> "panic"]
        ELSE [buffer |-> [emptied EXCEPT ![offset] = header,
                                         ![offset + 1] = dat],
              end |-> "ok"]

\* send_buffer without the final cs.set_high
send_buffer_no_latch(buf, max_bytes) ==
    [ops |-> <<CsLow>> \o ShiftBytes(buf, 0, Min(max_bytes, BufferLen)),
     end |-> IF max_bytes > BufferLen THEN "panic" ELSE "ok"]

\* The second half of write_raw when no pin fails: cs.set_low, the loop over
\* 0..max_bytes, whose read of self.buffer[i] panics at i = BufferLen, and
\* cs.set_high
send_buffer(buf, max_bytes) ==
    [ops |-> <<CsLow>> \o ShiftBytes(buf, 0, Min(max_bytes, BufferLen))
             \o (IF max_bytes > BufferLen THEN <<>> ELSE <<CsHigh>>),
     end |-> IF max_bytes > BufferLen THEN "panic" ELSE "ok"]

\* write_raw doing nothing for an address that is no device of the chain
write_raw_skipping(buf, devs, addr, header, dat) ==
    IF addr >= devs
    THEN [buffer |-> buf, ops |-> <<>>, end |-> "ok"]
    ELSE LET filled == fill_buffer(buf, addr, header, dat)
             sending == send_buffer(filled.buffer, devs * 2)
         IN  IF filled.end = "panic"
             THEN [buffer |-> filled.buffer, ops |-> <<>>, end |-> "panic"]
             ELSE [buffer |-> filled.buffer, ops |-> sending.ops,
                   end |-> sending.end]

\* write_raw on the buffer buf when no pin fails: the buffer it leaves, the
\* pin operations it performs, and how it ends: "ok", or "panic" when an index
\* is out of bounds
write_raw(buf, devs, addr, header, dat) ==
    LET filled == fill_buffer(buf, addr, header, dat)
        sending == send_buffer(filled.buffer, devs * 2)
    IN  IF filled.end = "panic"
        THEN [buffer |-> filled.buffer, ops |-> <<>>, end |-> "panic"]
        ELSE [buffer |-> filled.buffer, ops |-> sending.ops,
              end |-> sending.end]

(***************************************************************************)
(* The public operations, each as the write_raw calls it makes in order    *)
(* (every call is followed by `?`: the first error ends the operation)     *)
(***************************************************************************)
RawWrite(addr, header, dat) == [addr |-> addr, header |-> header, data |-> dat]

write_data(addr, command, dat) == <<RawWrite(addr, command, dat)>>

\* power_on going through the devices in descending order
power_on_descending(devs) == [i \in 1..devs |-> RawWrite(devs - i, Power, 1)]

\* for i in 0..self.devices { self.write_data(i, Command::Power, 0x01)?; }
power_on(devs) == [i \in 1..devs |-> RawWrite(i - 1, Power, 1)]

\* power_off going through the devices in descending order
power_off_descending(devs) == [i \in 1..devs |-> RawWrite(devs - i, Power, 0)]

power_off(devs) == [i \in 1..devs |-> RawWrite(i - 1, Power, 0)]

\* clear_display looping over 0..8
clear_display_from_zero(addr) == [i \in 1..8 |-> RawWrite(addr, i - 1, 0)]

clear_display(addr) == [i \in 1..8 |-> RawWrite(addr, i, 0)]

\* set_intensity keeping the low nibble of the value
set_intensity_masked(addr, intensity) ==
    write_data(addr, Intensity, intensity % 16)

set_intensity(addr, intensity) == write_data(addr, Intensity, intensity)

set_decode_mode(addr, mode) == write_data(addr, DecodeModeReg, mode)

test(addr, is_on) ==
    IF is_on THEN write_data(addr, DisplayTest, 1)
    ELSE write_data(addr, DisplayTest, 0)

\* the `for b in bcd` loop of write_bcd from input index idx with the digit
\* counter at digit (a u8), then the `while digit > 0` loop
RECURSIVE BcdRest(_, _)
BcdRest(addr, digit) ==
    IF digit > 0
    THEN <<RawWrite(addr, digit, 0)>> \o BcdRest(addr, digit - 1)
    ELSE <<>>

RECURSIVE BcdLoop(_, _, _, _)
BcdLoop(addr, bcd, idx, digit) ==
    IF idx > Len(bcd) THEN BcdRest(addr, digit)
    ELSE <<RawWrite(addr, digit, bcd_byte(bcd[idx]))>>
         \o (IF (digit - 1) % 256 = 0 THEN <<>>
             ELSE BcdLoop(addr, bcd, idx + 1, (digit - 1) % 256))

\* write_bcd setting the decode mode of the device it writes the digits of
write_bcd_decode_at_addr(addr, bcd) ==
    set_decode_mode(addr, CodeBDigits7_0) \o BcdLoop(addr, bcd, 1, MAX_DIGITS)

\* write_bcd counting the digit down before it writes it
write_bcd_from_seven(addr, bcd) ==
    set_decode_mode(0, CodeBDigits7_0)
    \o [j \in 1..MAX_DIGITS |-> RawWrite(addr, MAX_DIGITS - j, bcd_byte(bcd[j]))]

\* write_bcd numbering the digit registers upwards from Digit0
write_bcd_ascending(addr, bcd) ==
    set_decode_mode(0, CodeBDigits7_0)
    \o [j \in 1..MAX_DIGITS |-> RawWrite(addr, j, bcd_byte(bcd[j]))]

write_bcd(addr, bcd) ==
    set_decode_mode(0, CodeBDigits7_0) \o BcdLoop(addr, bcd, 1, MAX_DIGITS)

\* the body of the `for i in 0..self.devices` loop of init, from device i
RECURSIVE InitLoop(_, _)
InitLoop(i, devs) ==
    IF i >= devs THEN <<>>
    ELSE test(i, FALSE) \o write_data(i, ScanLimit, 7)
         \o set_decode_mode(i, NoDecode) \o clear_display(i)
         \o InitLoop(i + 1, devs)

\* init without the final power_off
init_no_power_off(devs) == InitLoop(0, devs)

init(devs) == InitLoop(0, devs) \o power_off(devs)

\* num_devices taking a chain of no device as a chain of one
num_devices_at_least_one(devs) ==
    IF devs = 0 THEN 1 ELSE IF devs > MAX_DISPLAYS THEN MAX_DISPLAYS ELSE devs

\* num_devices without the clamp
num_devices_unclamped(devs) == devs

\* let mut num_devices = devices; if num_devices > MAX_DISPLAYS { ... }
num_devices(devs) == IF devs > MAX_DISPLAYS THEN MAX_DISPLAYS ELSE devs

(***************************************************************************)
(* What the wire carries: the data level sampled at every rising clock     *)
(* edge, most significant bit of each byte first                           *)
(***************************************************************************)
\* the positions among ops[1..k] at which the clock is driven high
Edges(ops, k) == SelectSeq([i \in 1..k |-> i], LAMBDA i : ops[i] = ClkHigh)

\* the level of the data line after ops[1..i]
RECURSIVE DataAfter(_, _, _)
DataAfter(ops, i, before) ==
    IF i = 0 THEN before
    ELSE IF PinOf(ops[i]) = "data" THEN LevelOf(ops[i])
    ELSE DataAfter(ops, i - 1, before)

\* the bits clocked out by ops[1..k]: the level of the data line at every
\* rising clock edge
WireBits(ops, k, before) ==
    LET at == Edges(ops, k)
    IN  [j \in 1..Len(at) |-> DataAfter(ops, at[j] - 1, before)]

ByteOf(bits, b) ==
    bits[8*b + 1] * 128 + bits[8*b + 2] * 64 + bits[8*b + 3] * 32
    + bits[8*b + 4] * 16 + bits[8*b + 5] * 8 + bits[8*b + 6] * 4
    + bits[8*b + 7] * 2 + bits[8*b + 8]

\* the whole bytes among bits
WireBytes(bits) == [b \in 1..(Len(bits) \div 8) |-> ByteOf(bits, b - 1)]

(***************************************************************************)
(* Initial state: no driver yet; the pins are at levels the driver does    *)
(* not know                                                                *)
(***************************************************************************)
NoCall == [op |-> "none", addr |-> 0, arg |-> 0, after |-> "none"]

Init ==
    /\ status = "new"
    /\ requested = 0
    /\ devices = 0
    /\ buffer = empty_buffer
    /\ cs \in {0, 1}
    /\ clk \in {0, 1}
    /\ data \in {0, 1}
    /\ call = NoCall
    /\ pending = <<>>
    /\ result = "None"
    /\ log = <<>>
    /\ events = <<>>

(***************************************************************************)
(* One write_raw call of the running operation.  k = 0: no pin operation   *)
(* fails; k > 0: the k-th pin operation of the write fails.  A failed pin  *)
(* operation leaves the level of its pin as it was.                        *)
(***************************************************************************)
FailPoints(n) == {k \in 1..n : k <= MaxFailAt \/ k > n - MaxFailAt}

\* Propagate with new returning the driver whatever init returned
Propagate_returns_driver(k, end, stat, pend) ==
    IF k > 0
    THEN [result |-> "Err", pending |-> <<>>,
          status |-> IF stat = "constructing" THEN "ready" ELSE stat]
    ELSE IF end = "panic"
    THEN [result |-> "Panic", pending |-> <<>>, status |-> "panicked"]
    ELSE [result |-> "Running", pending |-> Tail(pend), status |-> stat]

\* How the running operation goes on after a write_raw whose k-th pin
\* operation failed (k = 0: none) and that ended as end: every call of
\* write_raw is followed by `?`, so the first error is returned at once, and
\* new returns no driver; a panic ends the program
Propagate(k, end, stat, pend) ==
    IF k > 0
    THEN [result |-> "Err", pending |-> <<>>,
          status |-> IF stat = "constructing" THEN "dead" ELSE stat]
    ELSE IF end = "panic"
    THEN [result |-> "Panic", pending |-> <<>>, status |-> "panicked"]
    ELSE [result |-> "Running", pending |-> Tail(pend), status |-> stat]

\* The first write_raw of pend, on a driver of devs devices in status stat
\* whose log so far is lg, run up to the failure of its k-th pin operation
\* (k = 0: no failure): the lines are those after the pin operations before
\* the k-th.  The log keeps what the chain saw of the write: the number of
\* bits and the whole bytes clocked out, and whether chip-select rose after it
\* fell.  (Each value is bound by \E, so that it is computed once.)
DoWrite(pend, lg, stat, devs) ==
    \E w \in {Head(pend)} :
    \E r \in {write_raw(buffer, devs, w.addr, w.header, w.data)} :
    \E n \in {Len(r.ops)} :
    \E st \in {[cs |-> cs, clk |-> clk, data |-> data]} :
    \E k \in {0} \cup FailPoints(n) :
    \E done \in {IF k = 0 THEN n ELSE k - 1} :
    \E now \in {LinesAfter(r.ops, done, st)} :
    \E bits \in {WireBits(r.ops, done, st.data)} :
    \E next \in {Propagate(k, r.end, stat, pend)} :
       /\ buffer' = r.buffer
       /\ events' = SubSeq(r.ops, 1, IF k = 0 THEN n ELSE k)
       /\ cs' = now.cs
       /\ clk' = now.clk
       /\ data' = now.data
       /\ log' = Append(lg,
              [addr |-> w.addr, header |-> w.header, data |-> w.data,
               ok |-> k = 0 /\ r.end = "ok",
               nbits |-> Len(bits),
               sent |-> WireBytes(bits),
               latched |-> now.cs = 1 /\ \E i \in 1..done : r.ops[i] = CsLow])
       /\ result' = next.result
       /\ pending' = next.pending
       /\ status' = next.status

(***************************************************************************)
(* A public call, up to the return of the first write_raw it makes (up to  *)
(* its return when it makes none).  call.after keeps whether a            *)
(* power_off() follows a power_on() that returned Ok.                      *)
(***************************************************************************)
Enter(op, addr, arg, writes, stat, devs) ==
    /\ call' = [op |-> op, addr |-> addr, arg |-> arg,
                after |-> IF op = "power_off" /\ call.op = "power_on"
                             /\ result = "Ok"
                          THEN "power_on" ELSE "other"]
    /\ IF writes = <<>>
       THEN /\ pending' = <<>>
            /\ result' = "Running"
            /\ log' = <<>>
            /\ events' = <<>>
            /\ status' = stat
            /\ UNCHANGED <<buffer, cs, clk, data>>
       ELSE DoWrite(writes, <<>>, stat, devs)

\* MAX7219::new(devs, data, cs, clk)
New ==
    /\ status = "new"
    /\ \E devs \in 0..MaxDevicesArg :
        /\ requested' = devs
        /\ devices' = num_devices(devs)
        /\ Enter("new", 0, devs, init(num_devices(devs)), "constructing",
                 num_devices(devs))

\* The caller makes the next call when the last one returned, with Ok or with
\* an error: the driver stays usable after an error (a failed new returns no
\* driver, and a panic ends the program).  The calls made after an error are
\* explored for the errors of the operations in Resumed.
Idle ==
    /\ status = "ready"
    /\ \/ result = "Ok"
       \/ result = "Err" /\ call.op \in Resumed

PowerOn ==
    /\ Idle
    /\ Enter("power_on", 0, 0, power_on(devices), status, devices)
    /\ UNCHANGED <<requested, devices>>

PowerOff ==
    /\ Idle
    /\ Enter("power_off", 0, 0, power_off(devices), status, devices)
    /\ UNCHANGED <<requested, devices>>

ClearDisplay ==
    /\ Idle
    /\ \E addr \in Addrs :
        Enter("clear_display", addr, 0, clear_display(addr), status, devices)
    /\ UNCHANGED <<requested, devices>>

SetIntensity ==
    /\ Idle
    /\ \E addr \in Addrs, v \in DataBytes :
        Enter("set_intensity", addr, v, set_intensity(addr, v), status, devices)
    /\ UNCHANGED <<requested, devices>>

SetDecodeMode ==
    /\ Idle
    /\ \E addr \in Addrs, mode \in DecodeModes :
        Enter("set_decode_mode", addr, mode, set_decode_mode(addr, mode),
              status, devices)
    /\ UNCHANGED <<requested, devices>>

WriteData ==
    /\ Idle
    /\ \E addr \in Addrs, command \in Commands, v \in DataBytes :
        Enter("write_data", addr, <<command, v>>,
              write_data(addr, command, v), status, devices)
    /\ UNCHANGED <<requested, devices>>

WriteBcd ==
    /\ Idle
    /\ \E addr \in Addrs, bcd \in BcdInputs :
        Enter("write_bcd", addr, bcd, write_bcd(addr, bcd), status, devices)
    /\ UNCHANGED <<requested, devices>>

Test ==
    /\ Idle
    /\ \E addr \in Addrs, is_on \in BOOLEAN :
        Enter("test", addr, is_on, test(addr, is_on), status, devices)
    /\ UNCHANGED <<requested, devices>>

\* the next write_raw of the running operation
WriteRaw ==
    /\ result = "Running"
    /\ pending # <<>>
    /\ DoWrite(pending, log, status, devices)
    /\ UNCHANGED <<requested, devices, call>>

\* Ok(()) of the running operation; Ok(max7219) of new
Return ==
    /\ result = "Running"
    /\ pending = <<>>
    /\ result' = "Ok"
    /\ status' = IF status = "constructing" THEN "ready" ELSE status
    /\ UNCHANGED <<requested, devices, buffer, cs, clk, data, call, pending,
                   log, events>>

Next ==
    \/ New
    \/ PowerOn
    \/ PowerOff
    \/ ClearDisplay
    \/ SetIntensity
    \/ SetDecodeMode
    \/ WriteData
    \/ WriteBcd
    \/ Test
    \/ WriteRaw
    \/ Return

Spec == Init /\ [][Next]_vars

(***************************************************************************)
(* shift_out alone, on every byte value: chip-select is low, as it is      *)
(* wherever write_raw calls shift_out                                      *)
(***************************************************************************)
InitShift ==
    /\ status = "shift"
    /\ requested = 0
    /\ devices = 0
    /\ buffer = empty_buffer
    /\ cs = 0
    /\ clk = 0
    /\ data \in {0, 1}
    /\ \E value \in 0..255 : call = [op |-> "shift_out", addr |-> 0, arg |-> value,
                                     after |-> "none"]
    /\ pending = <<>>
    /\ result = "Running"
    /\ log = <<>>
    /\ events = <<>>

\* shift_out(value): every pin operation is followed by `?`
ShiftOut ==
    /\ status = "shift"
    /\ result = "Running"
    /\ \E ops \in {shift_out(call.arg)} :
       \E st \in {[cs |-> cs, clk |-> clk, data |-> data]} :
       \E k \in 0..Len(ops) :
       \E done \in {IF k = 0 THEN Len(ops) ELSE k - 1} :
       \E now \in {LinesAfter(ops, done, st)} :
          /\ events' = SubSeq(ops, 1, IF k = 0 THEN Len(ops) ELSE k)
          /\ cs' = now.cs
          /\ clk' = now.clk
          /\ data' = now.data
          /\ result' = IF k = 0 THEN "Ok" ELSE "Err"
    /\ UNCHANGED <<status, requested, devices, buffer, call, pending, log>>

NextShift == ShiftOut

SpecShift == InitShift /\ [][NextShift]_vars


(***************************************************************************)
(* bcd_byte alone, on every byte value                                     *)
(***************************************************************************)
InitBcd ==
    /\ status = "bcd_byte"
    /\ requested = 0
    /\ devices = 0
    /\ buffer = empty_buffer
    /\ cs = 1
    /\ clk = 0
    /\ data = 0
    /\ \E b \in 0..255 : call = [op |-> "bcd_byte", addr |-> 0, arg |-> b,
                                 after |-> "none"]
    /\ pending = <<>>
    /\ result = "Running"
    /\ log = <<>>
    /\ events = <<>>

\* bcd_byte(b): the log keeps the byte returned
BcdByte ==
    /\ status = "bcd_byte"
    /\ result = "Running"
    /\ result' = "Ok"
    /\ log' = <<bcd_byte(call.arg)>>
    /\ UNCHANGED <<status, requested, devices, buffer, cs, clk, data, call,
                   pending, events>>

NextBcd == BcdByte

SpecBcd == InitBcd /\ [][NextBcd]_vars

(***************************************************************************)
(* The chain as the wire protocol describes it: every chip keeps the last  *)
(* 16 bits shifted through it and passes the older ones on, so after a     *)
(* write the chip at distance c from the driver (1 = nearest) holds the    *)
(* c-th last pair of bytes; the rising edge of chip-select latches it.     *)
(* <<-1, -1>>: not a whole frame, or bits of an earlier write.             *)
(***************************************************************************)
ChipFrame(e, c) ==
    IF e.nbits % 8 = 0 /\ Len(e.sent) >= 2 * c
    THEN <<e.sent[Len(e.sent) - 2*c + 1], e.sent[Len(e.sent) - 2*c + 2]>>
    ELSE <<-1, -1>>

\* the log entries whose frame wrote register reg of chip c
Latches(c, reg) ==
    {j \in 1..Len(log) : log[j].latched /\ ChipFrame(log[j], c)[1] = reg}

\* register reg of chip c after the writes of the log; -1: never written
ChipRegister(c, reg) ==
    IF Latches(c, reg) = {} THEN -1
    ELSE LET last == CHOOSE j \in Latches(c, reg) :
                        \A i \in Latches(c, reg) : i <= j
         IN  ChipFrame(log[last], c)[2]

LastWrite == log[Len(log)]

(***************************************************************************)
(* C1: on a chain of N in 1..8 devices, a raw register write(addr, r, d)   *)
(* with addr < N that returned Ok shifted out exactly 2N bytes: r and d at *)
(* offsets 2*addr and 2*addr+1, and 0x00 everywhere else.                  *)
(***************************************************************************)
C1_FramedBytes ==
    \A j \in 1..Len(log) :
        (status # "shift" /\ log[j].ok /\ devices \in 1..8
         /\ log[j].addr < devices)
        => /\ log[j].nbits = 16 * devices
           /\ Len(log[j].sent) = 2 * devices
           /\ \A i \in 1..(2 * devices) :
                log[j].sent[i] = IF i = 2 * log[j].addr + 1 THEN log[j].header
                                 ELSE IF i = 2 * log[j].addr + 2 THEN log[j].data
                                 ELSE 0

C1_Witness ==
    /\ devices = 4
    /\ log # <<>>
    /\ LastWrite.ok
    /\ LastWrite.addr = 2
    /\ LastWrite.header = Intensity
    /\ LastWrite.data = 178
    /\ LastWrite.sent = <<0, 0, 0, 0, 10, 178, 0, 0>>

(***************************************************************************)
(* C2: the frame buffer holds two bytes for each of the 8 possible         *)
(* devices, so on a chain of 1..8 devices a raw register write to an       *)
(* address below the device count never indexes outside the buffer.        *)
(***************************************************************************)
C2_InBounds ==
    result = "Panic" => ~(devices \in 1..MAX_DISPLAYS /\ LastWrite.addr < devices)

(***************************************************************************)
(* C3: a raw register write on a chain of N devices that returned Ok       *)
(* drove chip-select low first and high last and not in between, and       *)
(* pulsed the clock 16*N times in between, the bytes going out in buffer   *)
(* order, so that chip-select rose exactly once.                           *)
(***************************************************************************)
C3_OneWindow ==
    (status # "shift" /\ log # <<>> /\ LastWrite.ok)
    => LET n == Len(events)
       IN  /\ n = 2 + 48 * devices
           /\ events[1] = CsLow
           /\ events[n] = CsHigh
           /\ \A i \in 2..(n - 1) : PinOf(events[i]) # "cs"
           /\ Cardinality({i \in 1..n : events[i] = ClkHigh}) = 16 * devices
           /\ \A i \in 1..(n - 1) : events[i] = ClkHigh => events[i + 1] = ClkLow
           /\ LastWrite.latched
           /\ LastWrite.sent = [i \in 1..(2 * devices) |-> buffer[i - 1]]

C3_Witness ==
    /\ devices = 3
    /\ log # <<>>
    /\ LastWrite.ok
    /\ LastWrite.header = DisplayTest
    /\ Len(events) = 146
    /\ cs = 1

(***************************************************************************)
(* C4: shift_out(v) that returned Ok performed, for the bit positions 7    *)
(* down to 0 in that order, three pin operations per bit: data high if the *)
(* bit of v is set and low otherwise, clock high, clock low; that is 8     *)
(* data operations and 8 clock pulses for every v, and for v = 0b10110010  *)
(* the data line goes high, low, high, high, low, low, high, low.          *)
(***************************************************************************)
C4_MsbFirst ==
    (status = "shift" /\ result = "Ok")
    => /\ Len(events) = 24
       /\ \A i \in 0..7 :
            /\ events[3*i + 1] = IF (call.arg \div 2^(7 - i)) % 2 = 1
                                 THEN DataHigh ELSE DataLow
            /\ events[3*i + 2] = ClkHigh
            /\ events[3*i + 3] = ClkLow
       /\ Cardinality({i \in 1..24 : PinOf(events[i]) = "data"}) = 8
       /\ Cardinality({i \in 1..24 : events[i] = ClkHigh}) = 8
       /\ call.arg = 178 =>
            [i \in 1..8 |-> events[3*i - 2]]
            = <<DataHigh, DataLow, DataHigh, DataHigh,
                DataLow, DataLow, DataHigh, DataLow>>

C4_Witness ==
    /\ status = "shift"
    /\ result = "Ok"
    /\ call.arg = 178
    /\ Len(events) = 24
    /\ events[1] = DataHigh
    /\ events[22] = DataLow
    /\ data = 0

(***************************************************************************)
(* C5: in a chain of N chips, a raw register write(addr, r, d) with        *)
(* addr < N and r other than NoOp that returned Ok made exactly one chip   *)
(* latch the frame (r, d) and every other chip latch the no-op frame       *)
(* (0x00, 0x00), which writes none of its registers.                       *)
(***************************************************************************)
C5_OneChipAddressed ==
    \A j \in 1..Len(log) :
        (status # "shift" /\ log[j].ok /\ devices >= 1
         /\ log[j].addr < devices /\ log[j].header # Noop)
        => /\ log[j].latched
           /\ \E c \in 1..devices :
                /\ ChipFrame(log[j], c) = <<log[j].header, log[j].data>>
                /\ \A o \in (1..devices) \ {c} :
                     ChipFrame(log[j], o) = <<Noop, 0>>

C5_Witness ==
    /\ devices = 4
    /\ log # <<>>
    /\ LastWrite.ok
    /\ LastWrite.addr = 1
    /\ LastWrite.header = Digit0
    /\ LastWrite.data = 178
    /\ ChipFrame(LastWrite, 3) = <<Digit0, 178>>
    /\ ChipFrame(LastWrite, 1) = <<Noop, 0>>

(***************************************************************************)
(* C6: when new returned Ok for a chain of N in 1..8 devices, the          *)
(* initialization sequence was emitted for every device index i in 0..N-1: *)
(* DisplayTest 0x00, ScanLimit 0x07, DecodeMode 0x00, the digit registers  *)
(* 0x01..0x08 each 0x00, and then Power 0x00; every one of these writes    *)
(* was latched, so every chip ends with test mode off, scan limit 7, no    *)
(* decode, its digits cleared and power off.                               *)
(***************************************************************************)
\* the j-th write of the initialization of an N-device chain, as (addr, r, d)
C6_Expected(N, j) ==
    IF j > 11 * N THEN <<j - 11 * N - 1, 12, 0>>
    ELSE LET i == (j - 1) \div 11
             s == (j - 1) % 11
         IN  IF s = 0 THEN <<i, 15, 0>>
             ELSE IF s = 1 THEN <<i, 11, 7>>
             ELSE IF s = 2 THEN <<i, 9, 0>>
             ELSE <<i, s - 2, 0>>

C6_Initialized ==
    (call.op = "new" /\ result = "Ok" /\ devices \in 1..8)
    => /\ status = "ready"
       /\ Len(log) = 12 * devices
       /\ \A j \in 1..Len(log) :
            /\ <<log[j].addr, log[j].header, log[j].data>>
               = C6_Expected(devices, j)
            /\ log[j].ok
            /\ log[j].latched
       /\ \A c \in 1..devices :
            /\ ChipRegister(c, 15) = 0
            /\ ChipRegister(c, 11) = 7
            /\ ChipRegister(c, 9) = 0
            /\ \A digit \in 1..8 : ChipRegister(c, digit) = 0
            /\ ChipRegister(c, 12) = 0
            /\ ChipRegister(c, 10) = -1

C6_Witness ==
    /\ call.op = "new"
    /\ result = "Ok"
    /\ devices = 4
    /\ Len(log) = 48
    /\ ChipRegister(4, 11) = 7
    /\ ChipRegister(1, 12) = 0

(***************************************************************************)
(* C7: the device count stored by new is 8 for every requested count above *)
(* 8 and the requested count for every requested count in 1..8, and no     *)
(* operation changes it afterwards.                                        *)
(***************************************************************************)
C7_Clamped ==
    /\ [](status \notin {"new", "shift"} =>
            /\ requested > 8 => devices = 8
            /\ requested \in 1..8 => devices = requested)
    /\ [][status # "new" => devices' = devices /\ requested' = requested]_vars

C7_Witness ==
    /\ requested = 9
    /\ devices = 8
    /\ status # "new"

(***************************************************************************)
(* C8: power_on() followed by power_off() on a chain of N devices writes   *)
(* Power (0x0C) with 0x01 to the device indices 0, 1, ..., N-1 in that     *)
(* order and then Power with 0x00 to 0, 1, ..., N-1 in that order; every   *)
(* 0x01 write is complete, chip-select risen, when power_off begins.       *)
(***************************************************************************)
\* the log is that of Power writes of dat to the devices 0..N-1, all done
C8_PowerWrites(dat) ==
    /\ Len(log) = devices
    /\ \A j \in 1..devices :
         /\ log[j].addr = j - 1
         /\ log[j].header = 12
         /\ log[j].data = dat
         /\ log[j].ok
         /\ log[j].latched
         /\ log[j].sent = [i \in 1..(2 * devices) |->
                             IF i = 2*j - 1 THEN 12 ELSE IF i = 2*j THEN dat
                             ELSE 0]

C8_PowerOrder ==
    /\ []((call.op = "power_on" /\ result = "Ok") => C8_PowerWrites(1))
    /\ []((call.op = "power_off" /\ result = "Ok") => C8_PowerWrites(0))
    /\ [][(call.op = "power_on" /\ result = "Ok" /\ call'.op = "power_off")
          => /\ C8_PowerWrites(1)
             /\ devices = 0 => log' = <<>>
             /\ devices > 0 =>
                  /\ cs = 1
                  /\ Len(log') = 1
                  /\ log'[1].addr = 0
                  /\ log'[1].header = 12
                  /\ log'[1].data = 0]_vars

\* power_off returned Ok on three devices right after power_on returned Ok
C8_Witness ==
    /\ call.op = "power_off"
    /\ call.after = "power_on"
    /\ result = "Ok"
    /\ devices = 3
    /\ Len(log) = 3
    /\ log[3].sent = <<0, 0, 0, 0, 12, 0>>
    /\ cs = 1

(***************************************************************************)
(* C9: when a pin operation fails while power_on() or power_off() writes   *)
(* to the device index k, the call returns the error at once: the Power    *)
(* writes to the indices below k are complete and latched, and no write to *)
(* an index above k is begun.                                              *)
(***************************************************************************)
C9_PowerAborts ==
    (call.op \in {"power_on", "power_off"} /\ result = "Err")
    => /\ Len(log) \in 1..devices
       /\ pending = <<>>
       /\ ~ENABLED WriteRaw
       /\ ~LastWrite.ok
       /\ \A j \in 1..Len(log) :
            /\ log[j].addr = j - 1
            /\ log[j].header = 12
            /\ log[j].data = IF call.op = "power_on" THEN 1 ELSE 0
            /\ j < Len(log) => log[j].ok /\ log[j].latched

C9_Witness ==
    /\ call.op = "power_on"
    /\ result = "Err"
    /\ devices = 4
    /\ Len(log) = 3
    /\ log[2].latched
    /\ ~log[3].latched
    /\ status = "ready"

(***************************************************************************)
(* C10: in every public operation, new included, the first pin operation   *)
(* that fails is the last one performed: the operation returns the error   *)
(* (new returns no driver), emits no further pin event, retries nothing    *)
(* and undoes nothing, and leaves chip-select low when the failure comes   *)
(* after chip-select was driven low and before it is driven high.          *)
(***************************************************************************)
C10_FailureIsLast ==
    (status # "shift" /\ result = "Err")
    => /\ pending = <<>>
       /\ ~ENABLED WriteRaw
       /\ status = IF call.op = "new" THEN "dead" ELSE "ready"
       /\ log # <<>>
       /\ events # <<>>
       /\ ~LastWrite.ok
       /\ ~LastWrite.latched
       /\ \A j \in 1..(Len(log) - 1) : log[j].ok /\ log[j].latched
       /\ buffer[2 * LastWrite.addr] = LastWrite.header
       /\ buffer[2 * LastWrite.addr + 1] = LastWrite.data
       /\ LET n == Len(events)
          IN  /\ n <= 2 + 48 * devices
              /\ events[1] = CsLow
              /\ \A i \in 2..n : events[i] = CsHigh => i = 2 + 48 * devices
              /\ LastWrite.nbits
                 = Cardinality({i \in 1..(n - 1) : events[i] = ClkHigh})
              /\ (n >= 2 /\ PinOf(events[n]) # "cs") => cs = 0

C10_Witness ==
    /\ call.op = "new"
    /\ result = "Err"
    /\ status = "dead"
    /\ devices = 2
    /\ Len(log) = 14
    /\ events[Len(events)] = ClkLow
    /\ LastWrite.nbits = 32
    /\ cs = 0

(***************************************************************************)
(* C11: write_bcd(addr, bcd) that returned Ok, addr below the device       *)
(* count, first wrote the DecodeMode register with 0xFF and then made      *)
(* exactly eight writes to the device addr, to the registers Digit7 (0x08) *)
(* down to Digit0 (0x01) in that order, the data being bcd_byte of the     *)
(* input bytes in input order; for " 1234567" to device 1 of 2 devices the *)
(* data are 0x0F, '1', '2', ..., '7'.                                      *)
(***************************************************************************)
C11_BcdWrites ==
    (call.op = "write_bcd" /\ result = "Ok" /\ call.addr < devices)
    => /\ Len(log) = 9
       /\ log[1].header = 9
       /\ log[1].data = 255
       /\ \A j \in 1..9 : log[j].ok /\ log[j].latched
       /\ \A j \in 1..8 :
            /\ log[j + 1].addr = call.addr
            /\ log[j + 1].header = 9 - j
            /\ log[j + 1].data = bcd_byte(call.arg[j])
            /\ log[j + 1].sent[2 * call.addr + 1] = 9 - j
            /\ log[j + 1].sent[2 * call.addr + 2] = bcd_byte(call.arg[j])
       /\ call.arg = <<32, 49, 50, 51, 52, 53, 54, 55>>
          => [j \in 1..8 |-> log[j + 1].data]
             = <<15, 49, 50, 51, 52, 53, 54, 55>>

C11_Witness ==
    /\ call.op = "write_bcd"
    /\ result = "Ok"
    /\ devices = 2
    /\ call.addr = 1
    /\ call.arg = <<32, 49, 50, 51, 52, 53, 54, 55>>
    /\ Len(log) = 9
    /\ log[1].sent = <<9, 255, 0, 0>>
    /\ log[2].sent = <<0, 0, 8, 15>>
    /\ log[9].sent = <<0, 0, 1, 55>>

(***************************************************************************)
(* C12: bcd_byte returns a byte for every byte 0..255: 0x0F for ' ', 0x0A  *)
(* for '-', 0x0B for 'e', 0x8B for 'E', 0x0C for 'h', 0x8C for 'H', 0x0D   *)
(* for 'l', 0x8D for 'L', 0x0E for 'p', 0x8E for 'P', and the byte itself  *)
(* for every other byte.                                                   *)
(***************************************************************************)
C12_GlyphTable ==
    (status = "bcd_byte" /\ result = "Ok")
    => LET b == call.arg
           out == log[1]
       IN  /\ out \in 0..255
           /\ b = 32 => out = 15
           /\ b = 45 => out = 10
           /\ b = 101 => out = 11
           /\ b = 69 => out = 139
           /\ b = 104 => out = 12
           /\ b = 72 => out = 140
           /\ b = 108 => out = 13
           /\ b = 76 => out = 141
           /\ b = 112 => out = 14
           /\ b = 80 => out = 142
           /\ b \notin {32, 45, 101, 69, 104, 72, 108, 76, 112, 80} => out = b

C12_Witness ==
    /\ status = "bcd_byte"
    /\ result = "Ok"
    /\ call.arg = 80
    /\ log = <<142>>

(***************************************************************************)
(* C13: write_raw clears the buffer before it stores its frame, so the     *)
(* bytes a write shifts out are those of its own (addr, register, data)    *)
(* and the device count, whatever was written before, with or without      *)
(* success: the frame at offset 2*addr when that lies within the first     *)
(* 2*devices bytes, and 0x00 everywhere else; the buffer it leaves holds   *)
(* nothing of an earlier write.                                            *)
(***************************************************************************)
\* the byte at index i of the buffer of the write e alone
C13_OwnByte(e, i) ==
    IF i = 2 * e.addr THEN e.header
    ELSE IF i = 2 * e.addr + 1 THEN e.data
    ELSE 0

C13_NoResidue ==
    status \notin {"shift", "bcd_byte"}
    => /\ \A j \in 1..Len(log) :
            /\ Len(log[j].sent) <= 2 * devices
            /\ log[j].ok => Len(log[j].sent) = 2 * devices
            /\ \A i \in 1..Len(log[j].sent) :
                 log[j].sent[i] = C13_OwnByte(log[j], i - 1)
       /\ (log # <<>> /\ 2 * LastWrite.addr + 1 < BufferLen)
          => \A i \in 0..(BufferLen - 1) : buffer[i] = C13_OwnByte(LastWrite, i)

\* a write to device 1 that follows a write of other bytes to device 0
C13_Witness ==
    /\ devices = 2
    /\ Len(log) = 2
    /\ log[1].addr = 0
    /\ log[1].sent = <<9, 255, 0, 0>>
    /\ log[2].addr = 1
    /\ log[2].ok
    /\ log[2].sent = <<0, 0, 8, 15>>
    /\ buffer[0] = 0
    /\ buffer[1] = 0

(***************************************************************************)
(* C14: clear_display(addr) that returned Ok made exactly eight raw writes *)
(* to the device addr: to the registers 0x01, 0x02, ..., 0x08 in that      *)
(* order, each with data 0x00; it writes no other register, also when it   *)
(* is cut short by an error.                                               *)
(***************************************************************************)
C14_ClearsDigits ==
    call.op = "clear_display"
    => /\ Len(log) <= 8
       /\ result = "Ok" => Len(log) = 8
       /\ \A j \in 1..Len(log) :
            /\ log[j].addr = call.addr
            /\ log[j].header = j
            /\ log[j].data = 0
            /\ (log[j].ok /\ call.addr < devices)
               => /\ log[j].sent[2 * call.addr + 1] = j
                  /\ log[j].sent[2 * call.addr + 2] = 0
            /\ (result = "Ok" \/ j < Len(log)) => log[j].ok /\ log[j].latched

C14_Witness ==
    /\ call.op = "clear_display"
    /\ result = "Ok"
    /\ devices = 3
    /\ call.addr = 2
    /\ Len(log) = 8
    /\ log[1].sent = <<0, 0, 0, 0, 1, 0>>
    /\ log[8].sent = <<0, 0, 0, 0, 8, 0>>

(***************************************************************************)
(* C15: set_intensity(addr, intensity) makes exactly one raw write, to     *)
(* addr, of the register Intensity (0x0A) with the caller's byte as it is: *)
(* a value above 0x0F is neither refused nor clamped nor masked.           *)
(***************************************************************************)
C15_IntensityAsGiven ==
    call.op = "set_intensity"
    => /\ Len(log) = 1
       /\ log[1].addr = call.addr
       /\ log[1].header = 10
       /\ log[1].data = call.arg
       /\ result = "Err" => (events # <<>> /\ ~log[1].ok)
       /\ (result = "Ok" /\ call.addr < devices)
          => /\ log[1].sent[2 * call.addr + 1] = 10
             /\ log[1].sent[2 * call.addr + 2] = call.arg

C15_Witness ==
    /\ call.op = "set_intensity"
    /\ result = "Ok"
    /\ call.arg = 178
    /\ call.addr = 1
    /\ devices = 2
    /\ log[1].sent = <<0, 0, 10, 178>>

(***************************************************************************)
(* C16: the DecodeMode write of write_bcd(addr, bcd) goes to the device 0  *)
(* for every addr; the later writes are digit writes to addr.  When addr   *)
(* is not 0, the device addr gets no DecodeMode write from the call, and   *)
(* the device 0 gets one and none to its digit registers.  (The device i   *)
(* of N is the chip at distance N - i from the driver.)                    *)
(***************************************************************************)
C16_DecodeModeAtZero ==
    call.op = "write_bcd"
    => /\ log[1].addr = 0
       /\ log[1].header = 9
       /\ \A j \in 2..Len(log) :
            log[j].addr = call.addr /\ log[j].header \in 1..8
       /\ (result = "Ok" /\ call.addr # 0 /\ call.addr < devices)
          => /\ ChipRegister(devices, 9) = 255
             /\ \A digit \in 1..8 : ChipRegister(devices, digit) = -1
             /\ ChipRegister(devices - call.addr, 9) = -1
             /\ \A digit \in 1..8 :
                  ChipRegister(devices - call.addr, digit)
                  = bcd_byte(call.arg[9 - digit])

C16_Witness ==
    /\ call.op = "write_bcd"
    /\ result = "Ok"
    /\ devices = 3
    /\ call.addr = 2
    /\ log[1].sent = <<9, 255, 0, 0, 0, 0>>
    /\ ChipRegister(3, 9) = 255
    /\ ChipRegister(3, 8) = -1
    /\ ChipRegister(1, 9) = -1
    /\ ChipRegister(1, 8) \in {15, 10}

(***************************************************************************)
(* C17: new accepts a device count of 0: it stores 0 and returns Ok        *)
(* without any pin operation (neither loop of init runs), and power_on()   *)
(* and power_off() on that driver perform no pin operation and return Ok.  *)
(***************************************************************************)
C17_NoDevice ==
    /\ []((status \notin {"new", "shift", "bcd_byte"} /\ requested = 0)
          => /\ devices = 0
             /\ call.op \in {"new", "power_on", "power_off"}
                => /\ status \in {"constructing", "ready"}
                   /\ result \in {"Running", "Ok"}
                   /\ pending = <<>>
                   /\ log = <<>>
                   /\ events = <<>>)
    /\ [][(devices' = 0 /\ call'.op \in {"new", "power_on", "power_off"})
          => (cs' = cs /\ clk' = clk /\ data' = data /\ buffer' = buffer)]_vars

\* power_off returned Ok on no device, chip-select never driven high
C17_Witness ==
    /\ status = "ready"
    /\ requested = 0
    /\ devices = 0
    /\ call.op = "power_off"
    /\ call.after = "power_on"
    /\ result = "Ok"
    /\ events = <<>>
    /\ cs = 0
    /\ clk = 1

(***************************************************************************)
(* C18: on a chain of at least one device, when new or a later public      *)
(* operation has returned Ok, chip-select is high and the clock is low;    *)
(* chip-select is low only after an operation that returned an error (a    *)
(* write in progress is within one step here).                             *)
(***************************************************************************)
C18_BusIdle ==
    (status \in {"constructing", "ready", "dead"} /\ devices >= 1)
    => /\ result = "Ok" => (cs = 1 /\ clk = 0)
       /\ result = "Running" => (cs = 1 /\ clk = 0)
       /\ (cs = 0 \/ clk = 1) => result = "Err"

\* test(1, true) returned Ok on two devices: the lines are idle
C18_Witness ==
    /\ status = "ready"
    /\ devices = 2
    /\ call.op = "test"
    /\ call.addr = 1
    /\ result = "Ok"
    /\ cs = 1
    /\ clk = 0
    /\ data = 1
    /\ log[1].sent = <<0, 0, 15, 1>>

(***************************************************************************)
(* C19: write_raw does not check addr against the device count: a write    *)
(* with addr >= devices and addr*2+1 within the buffer stores its two      *)
(* bytes beyond the first 2*devices bytes, shifts out 2*devices bytes that *)
(* are all 0x00, so that every chip latches the no-op frame, and returns   *)
(* Ok unless a pin fails.                                                  *)
(***************************************************************************)
C19_Beyond(e) == e.addr >= devices /\ 2 * e.addr + 1 < BufferLen

C19_AddrNotChecked ==
    (status \notin {"shift", "bcd_byte"} /\ log # <<>>)
    => /\ \A j \in 1..Len(log) :
            (C19_Beyond(log[j]) /\ log[j].ok)
            => /\ log[j].latched \/ devices = 0
               /\ log[j].sent = [i \in 1..(2 * devices) |-> 0]
               /\ \A c \in 1..devices : ChipFrame(log[j], c) = <<Noop, 0>>
       /\ C19_Beyond(LastWrite)
          => /\ buffer[2 * LastWrite.addr] = LastWrite.header
             /\ buffer[2 * LastWrite.addr + 1] = LastWrite.data
             /\ result # "Panic"
             /\ Len(events) >= 1
             /\ LastWrite.ok = (result # "Err")

C19_Witness ==
    /\ devices = 2
    /\ call.op = "set_intensity"
    /\ result = "Ok"
    /\ LastWrite.addr = 3
    /\ LastWrite.data = 178
    /\ LastWrite.ok
    /\ LastWrite.sent = <<0, 0, 0, 0>>
    /\ buffer[6] = 10
    /\ buffer[7] = 178

(***************************************************************************)
(* C20: write_bcd that returned Ok made exactly nine raw writes, one of    *)
(* DecodeMode and one of each digit register 0x08, ..., 0x01; the digit    *)
(* counter goes from 8 down to 0 and never below (no register outside      *)
(* 1..8 is written as a digit), the call returns within the loop over the  *)
(* input, and the loop that fills the remaining digits writes nothing.     *)
(***************************************************************************)
C20_NineWrites ==
    call.op = "write_bcd"
    => /\ Len(log) <= 9
       /\ result = "Running" => Len(log) + Len(pending) = 9
       /\ result = "Ok" =>
            /\ Len(log) = 9
            /\ pending = <<>>
            /\ \A digit \in 1..8 :
                 Cardinality({j \in 2..9 : log[j].header = digit}) = 1
       /\ \A j \in 2..Len(log) :
            /\ log[j].header = 10 - j
            /\ log[j].data = bcd_byte(call.arg[j - 1])
       /\ BcdLoop(call.addr, call.arg, 1, MAX_DIGITS)
          = [j \in 1..8 |-> RawWrite(call.addr, 9 - j, bcd_byte(call.arg[j]))]
       /\ BcdRest(call.addr, 0) = <<>>

C20_Witness ==
    /\ call.op = "write_bcd"
    /\ result = "Ok"
    /\ devices = 1
    /\ call.addr = 0
    /\ call.arg = <<45, 69, 104, 76, 112, 32, 0, 9>>
    /\ Len(log) = 9
    /\ pending = <<>>
    /\ log[9].sent = <<1, 9>>

=============================================================================
